---- MODULE Spec2Model ----
(***************************************************************************)
(* Model of uri.h, a minimal URI parser and serializer.                    *)
(*                                                                         *)
(* A C string is a sequence of one-character strings; its terminating NUL  *)
(* is the position one past the end.  A char pointer held by the program   *)
(* is either NULL or the text of the block it points to.                   *)
(***************************************************************************)
EXTENDS Integers, Sequences, FiniteSets

\* ------------------------------------------------------------------------
\* Bounds of the model
\* ------------------------------------------------------------------------
\* longest input of the exhaustive part of the parse inputs
MaxLen == 5
\* number of store calls explored after a parse
MaxOps == 3

\* ------------------------------------------------------------------------
\* uri_element_t
\* ------------------------------------------------------------------------
BUILD == 0
SCHEME == 1
USERINFO == 2
HOST == 3
PORT == 4
PATH == 5
QUERY == 6
FRAGMENT == 7
URI_END == 8

Elements == BUILD .. (URI_END - 1)

\* the null pointer
NULL == <<"NULL">>
\* the terminating byte of a C string
NUL == "\\0"

\* uri_t after calloc: every data[i] is NULL
EmptyUri == [e \in Elements |-> NULL]

\* ------------------------------------------------------------------------
\* String primitives
\* ------------------------------------------------------------------------
\* *p for a pointer p = s + (i - 1) into the C string s
At(s, i) == IF i <= Len(s) THEN s[i] ELSE NUL

\* a variant that finds the last occurrence instead of the first
StrRChr(s, from, c) ==
    IF \E i \in from .. Len(s) : s[i] = c
    THEN CHOOSE i \in from .. Len(s) :
             s[i] = c /\ \A j \in (i + 1) .. Len(s) : s[j] # c
    ELSE 0

\* strchr( s + from - 1, c ): position of the first c, 0 for NULL
StrChr(s, from, c) ==
    IF \E i \in from .. Len(s) : s[i] = c
    THEN CHOOSE i \in from .. Len(s) :
             s[i] = c /\ \A j \in from .. (i - 1) : s[j] # c
    ELSE 0

\* while( *working && *working != c1 && ... ) working++;
RECURSIVE Scan(_, _, _)
Scan(s, working, stops) ==
    IF At(s, working) # NUL /\ At(s, working) \notin stops
    THEN Scan(s, working + 1, stops)
    ELSE working

\* copy_substring( from, to ): the characters from .. to - 1
copy_substring(s, from, to) == SubSeq(s, from, to - 1)

\* copy_string( ptr, source ): a fresh copy, or NULL for a NULL source
copy_string(source) == IF source # NULL THEN source ELSE NULL

\* ------------------------------------------------------------------------
\* uri_set on the slots of a store
\* ------------------------------------------------------------------------
\* a variant that drops the cached build whenever a slot is written
UriSetInvalidating(d, e, text) ==
    [d EXCEPT ![e] = copy_string(text), ![BUILD] = IF e = BUILD THEN copy_string(text) ELSE NULL]

UriSet(d, e, text) == [d EXCEPT ![e] = copy_string(text)]

\* ------------------------------------------------------------------------
\* uri_build
\* ------------------------------------------------------------------------
StrLen(p) == Len(p)

\* a variant that forgets the byte of the ':' before the port
UriBuildLenShort(d) ==
      (IF d[SCHEME] # NULL THEN StrLen(d[SCHEME]) + 1 ELSE 0)
    + (IF d[USERINFO] # NULL THEN StrLen(d[USERINFO]) + 1 ELSE 0)
    + (IF d[HOST] # NULL THEN StrLen(d[HOST]) + 2 ELSE 0)
    + (IF d[PORT] # NULL THEN StrLen(d[PORT]) ELSE 0)
    + (IF d[PATH] # NULL THEN StrLen(d[PATH]) ELSE 0)
    + (IF d[QUERY] # NULL THEN StrLen(d[QUERY]) + 1 ELSE 0)
    + (IF d[FRAGMENT] # NULL THEN StrLen(d[FRAGMENT]) + 1 ELSE 0)

\* the length n computed before the buffer of n + 1 bytes is allocated
UriBuildLen(d) ==
      (IF d[SCHEME] # NULL THEN StrLen(d[SCHEME]) + 1 ELSE 0)
    + (IF d[USERINFO] # NULL THEN StrLen(d[USERINFO]) + 1 ELSE 0)
    + (IF d[HOST] # NULL THEN StrLen(d[HOST]) + 2 ELSE 0)
    + (IF d[PORT] # NULL THEN StrLen(d[PORT]) + 1 ELSE 0)
    + (IF d[PATH] # NULL THEN StrLen(d[PATH]) ELSE 0)
    + (IF d[QUERY] # NULL THEN StrLen(d[QUERY]) + 1 ELSE 0)
    + (IF d[FRAGMENT] # NULL THEN StrLen(d[FRAGMENT]) + 1 ELSE 0)

\* a variant that emits userinfo and port outside the host block
UriBuildTextLoose(d, scheme) ==
    LET b1 == scheme \o <<":">>
        b2 == IF d[HOST] # NULL THEN b1 \o <<"/", "/">> ELSE b1
        b3 == IF d[USERINFO] # NULL THEN b2 \o d[USERINFO] \o <<"@">> ELSE b2
        b4 == IF d[HOST] # NULL THEN b3 \o d[HOST] ELSE b3
        b5 == IF d[PORT] # NULL THEN b4 \o <<":">> \o d[PORT] ELSE b4
        b6 == IF d[PATH] # NULL THEN b5 \o d[PATH] ELSE b5
        b7 == IF d[QUERY] # NULL THEN b6 \o <<"?">> \o d[QUERY] ELSE b6
    IN  IF d[FRAGMENT] # NULL THEN b7 \o <<"#">> \o d[FRAGMENT] ELSE b7

\* the strcpy / strcat sequence; scheme is what strcpy read from data[SCHEME]
UriBuildText(d, scheme) ==
    LET b1 == scheme \o <<":">>
        b2 == IF d[HOST] # NULL
              THEN LET h1 == b1 \o <<"/", "/">>
                       h2 == IF d[USERINFO] # NULL
                             THEN h1 \o d[USERINFO] \o <<"@">>
                             ELSE h1
                       h3 == h2 \o d[HOST]
                   IN  IF d[PORT] # NULL THEN h3 \o <<":">> \o d[PORT] ELSE h3
              ELSE b1
        b3 == IF d[PATH] # NULL THEN b2 \o d[PATH] ELSE b2
        b4 == IF d[QUERY] # NULL THEN b3 \o <<"?">> \o d[QUERY] ELSE b3
    IN  IF d[FRAGMENT] # NULL THEN b4 \o <<"#">> \o d[FRAGMENT] ELSE b4

\* uri_build on a store whose scheme is present
UriBuild(d) == [d EXCEPT ![BUILD] = UriBuildText(d, d[SCHEME])]

\* ------------------------------------------------------------------------
\* uri_parse
\* ------------------------------------------------------------------------
\* from PATH on: working stands on the terminator of the path
ParseTail(s, uri, current, working) ==
    LET u1 == UriSet(uri, PATH, copy_substring(s, current, working))
    IN  IF At(s, working) = NUL
        THEN u1
        ELSE LET isQ == At(s, working) = "?"
                 wq  == IF isQ THEN Scan(s, working, {"#"}) ELSE working
                 u2  == IF isQ
                        THEN UriSet(u1, QUERY, copy_substring(s, working, wq))
                        ELSE u1
                 isF == At(s, wq) = "#"
                 wf  == IF isF THEN Scan(s, wq, {}) ELSE wq
                 u3  == IF isF
                        THEN UriSet(u2, FRAGMENT, copy_substring(s, wq, wf))
                        ELSE u2
             IN  UriBuild(u3)

\* the authority branch: a is the position after "//"
ParseAuthority(s, uri, a) ==
    LET w1    == Scan(s, a, {"@", ":", "/"})
        hasU  == At(s, w1) = "@"
        u1    == IF hasU THEN UriSet(uri, USERINFO, copy_substring(s, a, w1)) ELSE uri
        hcur  == IF hasU THEN w1 + 1 ELSE a
        w2    == IF hasU THEN Scan(s, w1 + 1, {":", "/"}) ELSE w1
        u2    == UriSet(u1, HOST, copy_substring(s, hcur, w2))
    IN  IF At(s, w2) = NUL
        THEN u2
        ELSE LET hasP == At(s, w2) = ":"
                 w3   == IF hasP THEN Scan(s, w2 + 1, {"/"}) ELSE w2
                 u3   == IF hasP
                         THEN UriSet(u2, PORT, copy_substring(s, w2 + 1, w3))
                         ELSE u2
             IN  IF At(s, w3) = NUL
                 THEN u3
                 ELSE ParseTail(s, u3, w3, Scan(s, w3, {"?", "#"}))

\* uri_parse( uri_s ): [ok |-> FALSE] for NULL, else the slots of the new store
UriParse(s) ==
    LET colon == StrChr(s, 1, ":")
    IN  IF colon = 0
        THEN [ok |-> FALSE, data |-> EmptyUri]
        ELSE LET u1      == UriSet(EmptyUri, SCHEME, copy_substring(s, 1, colon))
                 working == colon + 1
             IN  [ok   |-> TRUE,
                  data |-> IF At(s, working) = "/" /\ At(s, working + 1) = "/"
                           THEN ParseAuthority(s, u1, working + 2)
                           ELSE ParseTail(s, u1, working, Scan(s, working, {"/"}))]

\* ------------------------------------------------------------------------
\* Inputs of the calls
\* ------------------------------------------------------------------------
Alphabet == {"a", ":", "/", "@", "?", "#"}

\* every C string over Alphabet of at most MaxLen characters
ShortInputs == UNION {[1 .. k -> Alphabet] : k \in 0 .. MaxLen}

\* URIs written out from their components (NULL: component not written)
Shapes ==
    {c \in [scheme   : {<<"s">>},
            userinfo : {NULL, <<"u">>},
            host     : {NULL, <<>>, <<"h">>},
            port     : {NULL, <<"8">>},
            path     : {<<>>, <<"/">>, <<"/", "p">>, <<"p">>, <<"p", "/", "r">>},
            query    : {NULL, <<>>, <<"q">>},
            fragment : {NULL, <<>>, <<"f">>}] :
        /\ c.host = NULL => (c.userinfo = NULL /\ c.port = NULL)
        /\ c.host # NULL => (c.path = <<>> \/ c.path[1] = "/")}

Compose(c) ==
    c.scheme \o <<":">>
    \o (IF c.host # NULL
        THEN <<"/", "/">>
             \o (IF c.userinfo # NULL THEN c.userinfo \o <<"@">> ELSE <<>>)
             \o c.host
             \o (IF c.port # NULL THEN <<":">> \o c.port ELSE <<>>)
        ELSE <<>>)
    \o c.path
    \o (IF c.query # NULL THEN <<"?">> \o c.query ELSE <<>>)
    \o (IF c.fragment # NULL THEN <<"#">> \o c.fragment ELSE <<>>)

ShapedInputs == {Compose(c) : c \in Shapes}

\* the inputs of uri_parse explored by SpecParse
Inputs == ShortInputs \cup ShapedInputs

\* the inputs of uri_parse explored together with the store calls
StoreInputs ==
    { <<"x">>,
      <<"s", ":">>,
      <<"s", ":", "/", "/", "h">>,
      <<"s", ":", "p", "/">>,
      <<"s", ":", "/", "/", "h", "/", "p", "?", "q">>,
      <<"s", ":", "/", "/", "u", "@", "h", ":", "8", "/", "p", "?", "q", "#", "f">> }

\* the data argument of uri_set
SetArgs == {NULL, <<>>, <<"x">>}

\* ------------------------------------------------------------------------
\* State
\* ------------------------------------------------------------------------
VARIABLES
    store,     \* "none": the caller holds no uri_t; "live": it holds one
    data,      \* uri_t.data of that store
    src,       \* the argument of the last uri_parse, NULL before the first
    ret,       \* the pointer last returned by uri_get / uri_remove: the text
               \* of its block and whether that block was passed to free
    out,       \* what the last uri_print wrote to stdout
    n,         \* the n of the last uri_build
    last,      \* the last call: its name, its element and its data argument
    pc,        \* "run", or "crashed" once the process was killed
    nullRead,  \* a NULL pointer was passed to strcpy
    ops        \* calls made on the store since uri_parse returned it

vars == <<store, data, src, ret, out, n, last, pc, nullRead, ops>>

NoCall == [op |-> "none", e |-> URI_END, arg |-> NULL]
NullRet == [text |-> NULL, freed |-> FALSE]

Init ==
    /\ store = "none"
    /\ data = EmptyUri
    /\ src = NULL
    /\ ret = NullRet
    /\ out = <<>>
    /\ n = 0
    /\ last = NoCall
    /\ pc = "run"
    /\ nullRead = FALSE
    /\ ops = 0

\* ------------------------------------------------------------------------
\* Calls
\* ------------------------------------------------------------------------
\* uri_parse( s )
DoParse(s) ==
    LET r == UriParse(s)
    IN  /\ src' = s
        /\ store' = IF r.ok THEN "live" ELSE "none"
        /\ data' = r.data
        /\ n' = IF r.data[BUILD] # NULL THEN UriBuildLen(r.data) ELSE n
        /\ last' = [op |-> "parse", e |-> URI_END, arg |-> s]
        /\ ops' = 0
        /\ UNCHANGED <<ret, out, pc, nullRead>>

\* uri_parse is the first call of a run: one store is followed from its
\* creation on
Parse ==
    /\ pc = "run" /\ src = NULL
    /\ \E s \in StoreInputs : DoParse(s)

ParseAny ==
    /\ pc = "run" /\ src = NULL
    /\ \E s \in Inputs : DoParse(s)

\* the ways a call of uri_build on the slots d can end
BuildOutcomes(d) ==
    IF d[SCHEME] # NULL
    THEN {[pc |-> "run", nullRead |-> FALSE, data |-> UriBuild(d)]}
    ELSE \* strcpy( build, NULL ): the process is killed, or the read at
         \* address 0 finds a NUL byte and the build goes on
         {[pc |-> "crashed", nullRead |-> TRUE, data |-> d],
          [pc |-> "run", nullRead |-> TRUE,
           data |-> [d EXCEPT ![BUILD] = UriBuildText(d, <<>>)]]}

\* uri_set( u, e, text )
Set ==
    /\ pc = "run" /\ store = "live" /\ ops < MaxOps
    /\ \E e \in Elements, text \in SetArgs :
          /\ data' = UriSet(data, e, text)
          /\ last' = [op |-> "set", e |-> e, arg |-> text]
    /\ ops' = ops + 1
    /\ UNCHANGED <<store, src, ret, out, n, pc, nullRead>>

\* uri_remove( u, e ): returns the pointer the slot held, which uri_set freed
Remove ==
    /\ pc = "run" /\ store = "live" /\ ops < MaxOps
    /\ \E e \in Elements :
          /\ data' = UriSet(data, e, NULL)
          /\ last' = [op |-> "remove", e |-> e, arg |-> data[e]]
          /\ ret' = [text |-> data[e], freed |-> data[e] # NULL]
    /\ ops' = ops + 1
    /\ UNCHANGED <<store, src, out, n, pc, nullRead>>

\* uri_build( u )
Build ==
    /\ pc = "run" /\ store = "live" /\ ops < MaxOps
    /\ \E o \in BuildOutcomes(data) :
          /\ data' = o.data
          /\ pc' = o.pc
          /\ nullRead' = (nullRead \/ o.nullRead)
    /\ n' = UriBuildLen(data)
    /\ last' = [op |-> "build", e |-> URI_END, arg |-> NULL]
    /\ ops' = ops + 1
    /\ UNCHANGED <<store, src, ret, out>>

\* uri_get( u ): uri_build, then a copy of data[BUILD]
Get ==
    /\ pc = "run" /\ store = "live" /\ ops < MaxOps
    /\ \E o \in BuildOutcomes(data) :
          /\ data' = o.data
          /\ pc' = o.pc
          /\ nullRead' = (nullRead \/ o.nullRead)
          /\ ret' = IF o.pc = "run"
                    THEN [text |-> copy_string(o.data[BUILD]), freed |-> FALSE]
                    ELSE ret
    /\ n' = UriBuildLen(data)
    /\ last' = [op |-> "get", e |-> URI_END, arg |-> NULL]
    /\ ops' = ops + 1
    /\ UNCHANGED <<store, src, out>>

\* uri_print( u )
uri_print ==
    /\ pc = "run" /\ store = "live" /\ ops < MaxOps
    /\ out' = IF data[BUILD] # NULL THEN data[BUILD] ELSE <<>>
    /\ last' = [op |-> "print", e |-> URI_END, arg |-> NULL]
    /\ ops' = ops + 1
    /\ UNCHANGED <<store, data, src, ret, n, pc, nullRead>>

Next == Parse \/ Set \/ Remove \/ Build \/ Get \/ uri_print

Spec == Init /\ [][Next]_vars

\* uri_parse over all inputs, followed by uri_get and uri_print
NextParse == ParseAny \/ Get \/ uri_print

SpecParse == Init /\ [][NextParse]_vars

\* ------------------------------------------------------------------------
\* Properties
\* ------------------------------------------------------------------------
HasColon(s) == \E i \in 1 .. Len(s) : s[i] = ":"

\* the number of characters of s before its first ':'
SchemeLen(s) ==
    CHOOSE k \in 0 .. Len(s) - 1 :
        s[k + 1] = ":" /\ \A j \in 1 .. k : s[j] # ":"

\* the piece of the canonical string a component p contributes
Opt(pre, p, suf) == IF p = NULL THEN <<>> ELSE pre \o p \o suf

\* the canonical string of the slots d as the Builder is specified
Expected(d) ==
    d[SCHEME] \o <<":">>
    \o (IF d[HOST] = NULL
        THEN <<>>
        ELSE <<"/", "/">> \o Opt(<<>>, d[USERINFO], <<"@">>) \o d[HOST]
             \o Opt(<<":">>, d[PORT], <<>>))
    \o Opt(<<>>, d[PATH], <<>>)
    \o Opt(<<"?">>, d[QUERY], <<>>)
    \o Opt(<<"#">>, d[FRAGMENT], <<>>)

\* a build ran in the last call and came back
Built ==
    /\ pc = "run"
    /\ store = "live"
    /\ data[SCHEME] # NULL
    /\ \/ last.op \in {"build", "get"}
       \/ last.op = "parse" /\ data[BUILD] # NULL

\* inputs of the shape scheme://host/path?query#fragment
WellFormedInputs ==
    {Compose(c) : c \in {x \in Shapes :
        /\ x.host \notin {NULL, <<>>} /\ x.userinfo = NULL /\ x.port = NULL
        /\ x.path # <<>>
        /\ x.query \notin {NULL, <<>>} /\ x.fragment \notin {NULL, <<>>}}}

\* C1: for an input with scheme, host, non-empty path, query and fragment,
\* uri_get applied to the result of uri_parse returns the input.
C1_RoundTrip ==
    (last.op = "get" /\ pc = "run" /\ src \in WellFormedInputs) => ret.text = src

\* C2: every successful parse leaves the store with data[BUILD] present and
\* equal to the canonical string of the slots it populated.
C2_ParseBuilds ==
    (last.op = "parse" /\ store = "live")
        => (data[BUILD] # NULL /\ data[BUILD] = Expected(data))

\* C3: uri_remove returns the text the slot held, that text is not released
\* when the call returns, and the slot is absent afterwards.
C3_RemoveTransfers ==
    (last.op = "remove" /\ last.arg # NULL)
        => (ret.text = last.arg /\ ~ret.freed /\ data[last.e] = NULL)

\* C4: a build completes in every store state, also when the scheme is
\* absent, and never reads an absent slot.
C4_BuildTotal == pc = "run" /\ ~nullRead

\* C5: parse fails exactly when the input has no ':'; otherwise the scheme
\* is the text before the first ':', and parse(":") gives an empty scheme
\* and no non-empty other component.
C5_SchemeDelimiter ==
    src # NULL =>
        /\ (store = "none") <=> ~HasColon(src)
        /\ store = "live" => data[SCHEME] = SubSeq(src, 1, SchemeLen(src))
        /\ src = <<":">> =>
              /\ store = "live"
              /\ data[SCHEME] = <<>>
              /\ \A e \in Elements \ {BUILD, SCHEME} : data[e] \in {NULL, <<>>}

C5_Witness ==
    /\ last.op = "parse" /\ src = <<":">>
    /\ store = "live" /\ data[SCHEME] = <<>> /\ data[PATH] = <<>>

\* inputs of the shape scheme://userinfo@host:port/path?query#fragment
FullShapes ==
    {c \in Shapes :
        /\ c.userinfo # NULL /\ c.host \notin {NULL, <<>>} /\ c.port # NULL
        /\ c.path # <<>>
        /\ c.query \notin {NULL, <<>>} /\ c.fragment \notin {NULL, <<>>}}

\* C6: for scheme://userinfo@host:port/path?query#fragment every component
\* is stored without its delimiter: query without '?', fragment without '#'.
C6_Decomposition ==
    \A c \in FullShapes :
        (src = Compose(c) /\ store = "live") =>
            /\ data[SCHEME] = c.scheme
            /\ data[USERINFO] = c.userinfo
            /\ data[HOST] = c.host
            /\ data[PORT] = c.port
            /\ data[PATH] = c.path
            /\ data[QUERY] = c.query
            /\ data[FRAGMENT] = c.fragment

\* the ':' ending the scheme of s is not followed by "//"
NonAuthority(s) ==
    /\ HasColon(s)
    /\ ~(At(s, SchemeLen(s) + 2) = "/" /\ At(s, SchemeLen(s) + 3) = "/")

\* the first position from i on that holds '?', '#' or the end of s
PathEnd(s, i) ==
    CHOOSE k \in i .. Len(s) + 1 :
        /\ At(s, k) \in {"?", "#", NUL}
        /\ \A j \in i .. k - 1 : At(s, j) \notin {"?", "#", NUL}

\* a stored component with or without its leading delimiter
WithDelim(c, p) == IF p = NULL THEN {<<>>} ELSE {p, <<c>> \o p}

\* C7: without "//" after the scheme, path is the text after the ':' up to
\* the first '?', '#' or end of input; query and fragment take the rest, and
\* no text after the scheme is left out.
C7_NonAuthority ==
    (src # NULL /\ NonAuthority(src)) =>
        LET from == SchemeLen(src) + 2
            to   == PathEnd(src, from)
            rest == SubSeq(src, to, Len(src))
        IN  /\ store = "live"
            /\ data[PATH] = SubSeq(src, from, to - 1)
            /\ (data[QUERY] # NULL) <=> (At(src, to) = "?")
            /\ (data[FRAGMENT] # NULL) <=> (\E j \in to .. Len(src) : src[j] = "#")
            /\ \E q \in WithDelim("?", data[QUERY]),
                  f \in WithDelim("#", data[FRAGMENT]) : rest = q \o f

\* C8: with the scheme present, build leaves in data[BUILD] exactly
\* scheme ':' ['//' [userinfo '@'] host [':' port]] [path] ['?' query]
\* ['#' fragment]; userinfo and port only appear with a host, and no '/' is
\* added for a missing path.
C8_BuilderOutput == Built => data[BUILD] = Expected(data)

C8_Witness ==
    /\ Built /\ last.op = "build"
    /\ data[HOST] = NULL /\ data[USERINFO] # NULL
    /\ data[PATH] = NULL /\ data[QUERY] # NULL
    /\ data[BUILD] = data[SCHEME] \o <<":", "?">> \o data[QUERY]
                     \o Opt(<<"#">>, data[FRAGMENT], <<>>)

\* C9: uri_set and uri_remove on the seven semantic slots leave data[BUILD]
\* unchanged; uri_print writes data[BUILD] as it stands and changes no slot;
\* uri_get returns the string of the current slot values.
C9_PullBasedCache ==
    [][ /\ (last'.op \in {"set", "remove"} /\ last'.e # BUILD)
              => data'[BUILD] = data[BUILD]
        /\ last'.op = "print"
              => /\ data' = data
                 /\ out' = (IF data[BUILD] # NULL THEN data[BUILD] ELSE <<>>)
        /\ (last'.op = "get" /\ pc' = "run" /\ data[SCHEME] # NULL)
              => ret'.text = Expected(data)
      ]_vars

\* a print wrote a cached build that the slots no longer produce
C9_Witness ==
    /\ last.op = "print" /\ pc = "run"
    /\ data[SCHEME] # NULL /\ data[BUILD] # NULL
    /\ out = data[BUILD]
    /\ out # Expected(data)

\* C10: with the scheme present, build writes at most n characters into its
\* buffer of n + 1 bytes; n is the written length when host is present or
\* userinfo and port are both absent, and larger otherwise.
C10_BufferSufficient ==
    Built =>
        /\ Len(data[BUILD]) <= n
        /\ (data[HOST] # NULL \/ (data[USERINFO] = NULL /\ data[PORT] = NULL))
              => n = Len(data[BUILD])
        /\ (data[HOST] = NULL /\ (data[USERINFO] # NULL \/ data[PORT] # NULL))
              => n > Len(data[BUILD])

C10_Witness ==
    /\ Built /\ last.op = "build"
    /\ data[HOST] = NULL /\ data[USERINFO] # NULL /\ data[PORT] # NULL
    /\ n = Len(data[BUILD]) + Len(data[USERINFO]) + Len(data[PORT]) + 2

====
